---------------------------- MODULE Spec2Model ----------------------------
(***************************************************************************)
(* Breadth-first shortest path in a binary matrix (leetcode-pygame).       *)
(*                                                                         *)
(* The module models                                                       *)
(*   - algorithm.py: is_valid, visit_neighbors, shortest_path and the      *)
(*     rejection-sampling generator create_grid with its two predicates;   *)
(*   - states.py: SimulationState, the stepwise BFS that advances one      *)
(*     level per perform_update call and records parents for the path;     *)
(*     the timer of TimelyUpdateGameState and the handle_events of the     *)
(*     four states;                                                        *)
(*   - game.py: Game.run and Game.handle_events.                           *)
(*                                                                         *)
(* Spec    : one grid, one start/end pair; the one-shot shortest_path is   *)
(*           called on it and a SimulationState built on the same inputs   *)
(*           is driven one perform_update at a time.                       *)
(* SpecGen : one call of create_good_grid / create_bad_grid.               *)
(* SpecRedrive : the SimulationState alone, perform_update called also     *)
(*           after it has requested CompletionState or NoPathState.        *)
(* SpecOrder : shortest_path and the stepwise BFS run with DIRECTIONS in    *)
(*           another order.                                                *)
(* SpecGame : Game.run, the loop of handle_events, update, render and the  *)
(*           state swap, over InitState, SimulationState, CompletionState  *)
(*           and NoPathState.                                              *)
(* SpecGameFair : the same loop with its scheduling, MaxBatchFair events   *)
(*           per frame at most.                                            *)
(***************************************************************************)
EXTENDS Integers, Sequences, FiniteSets

\* ------------------------------------------------------------------ bounds

\* Grids of every size 1..MaxSize are examined (the generator is also called
\* with size 0).
MaxSize == 3

\* A grid holds at most MaxWalls wall cells.
MaxWalls == 3

\* --------------------------------------------------------------- constants

WALL == 1
NON_WALL == 0

\* DIRECTIONS with the four diagonal moves left out.
DirectionsOrthogonal ==
    << <<1, 0>>, <<0, 1>>, <<-1, 0>>, <<0, -1>> >>

\* The 8 king moves, in the order of the source.
DIRECTIONS ==
    << <<1, 0>>, <<1, 1>>, <<0, 1>>, <<-1, 1>>,
       <<-1, 0>>, <<-1, -1>>, <<0, -1>>, <<1, -1>> >>

\* Python's None: the parent of the start cell, an absent argument.
None == << >>

VARIABLES
    grid,          \* grid[x][y] \in {NON_WALL, WALL}, x and y in 0..size-1
    start_pos,     \* <<x, y>>
    end_pos,       \* <<x, y>>
    \* --- SimulationState
    visited,       \* visited[x][y] \in BOOLEAN
    queue,         \* deque of cells
    parents,       \* dict: cell -> cell or None
    level,         \* BFS level counter
    line_sprites,  \* lines added by add_line, in order: <<from, to, width>>
    final_path,    \* cells marked "final_path" by build_final_path, in order
    next_state,    \* game.next_state: "None", "CompletionState", "NoPathState"
    final_level,   \* the level handed to CompletionState / NoPathState
    \* --- one call of shortest_path(grid, start_pos, end_pos)
    one_shot,
    \* --- one call of create_grid
    gen,
    \* --- the Game object and the locals of Game.run
    game

vars == << grid, start_pos, end_pos, visited, queue, parents, level,
           line_sprites, final_path, next_state, final_level, one_shot, gen,
           game >>

simVars == << visited, queue, parents, level, line_sprites, final_path,
              next_state, final_level >>

\* ------------------------------------------------------------ grid helpers

\* len(grid)
GridSize(g) == Cardinality(DOMAIN g)

Cells(n) == (0 .. n - 1) \X (0 .. n - 1)

\* The grid of size n whose wall cells are exactly W.
GridOf(n, W) ==
    [x \in 0 .. n - 1 |->
        [y \in 0 .. n - 1 |-> IF <<x, y>> \in W THEN WALL ELSE NON_WALL]]

WallCells(g) == {c \in Cells(GridSize(g)) : g[c[1]][c[2]] = WALL}

OpenCells(g) == {c \in Cells(GridSize(g)) : g[c[1]][c[2]] # WALL}

\* The subsets of S of at most k elements.
RECURSIVE SubsetsUpTo(_, _)
SubsetsUpTo(S, k) ==
    IF k = 0 THEN {{}}
    ELSE {V \cup W : V \in SubsetsUpTo(S, k - 1),
                     W \in {{}} \cup {{c} : c \in S}}

\* The grids examined, by size: those of at most MaxWalls walls.
Grids ==
    [n \in 1 .. MaxSize |->
        {GridOf(n, W) : W \in SubsetsUpTo(Cells(n), MaxWalls)}]

\* [[False] * size for _ in range(size)]
AllFalse(n) == [x \in 0 .. n - 1 |-> [y \in 0 .. n - 1 |-> FALSE]]

\* m[x][y] = v
SetCell(m, x, y, v) == [m EXCEPT ![x][y] = v]

\* ------------------------------------------------------------ algorithm.py

\* is_valid without its wall test.
is_valid_walls_ignored(x, y, g, size, vis) ==
    IF ~(x >= 0 /\ x < size /\ y >= 0 /\ y < size) THEN FALSE
    ELSE IF vis[x][y] THEN FALSE
    ELSE TRUE

is_valid(x, y, g, size, vis) ==
    IF ~(x >= 0 /\ x < size /\ y >= 0 /\ y < size) THEN FALSE
    ELSE IF g[x][y] = WALL THEN FALSE
    ELSE IF vis[x][y] THEN FALSE
    ELSE TRUE

\* The loop of visit_neighbors from direction i on: marks each valid
\* neighbour visited and appends it to neighbors.
RECURSIVE VisitLoop(_, _, _, _, _, _, _)
VisitLoop(i, x, y, g, size, vis, neighbors) ==
    IF i > Len(DIRECTIONS) THEN [visited |-> vis, neighbors |-> neighbors]
    ELSE LET new_x == x + DIRECTIONS[i][1]
             new_y == y + DIRECTIONS[i][2]
         IN  IF is_valid(new_x, new_y, g, size, vis)
             THEN VisitLoop(i + 1, x, y, g, size,
                            SetCell(vis, new_x, new_y, TRUE),
                            Append(neighbors, <<new_x, new_y>>))
             ELSE VisitLoop(i + 1, x, y, g, size, vis, neighbors)

\* visit_neighbors(x, y, grid, size, visited, queue): the visited matrix and
\* the queue after the call, and the list it returns.
\* queue.extend(neighbors); return neighbors
Extend(r, q) ==
    [visited |-> r.visited,
     queue |-> q \o r.neighbors,
     neighbors |-> r.neighbors]

visit_neighbors(x, y, g, size, vis, q) ==
    Extend(VisitLoop(1, x, y, g, size, vis, << >>), q)

\* The for loop of shortest_path: `left` more cells of the current level are
\* popped; stops at once when the end is popped.
\* b is the BFS state, a record with the fields visited and queue.
RECURSIVE ShortestPathFor(_, _, _, _, _)
ShortestPathFor(left, g, size, e, b) ==
    IF left = 0 THEN [found |-> FALSE, visited |-> b.visited, queue |-> b.queue]
    ELSE LET x == Head(b.queue)[1]
             y == Head(b.queue)[2]
         IN  IF x = e[1] /\ y = e[2]
             THEN [found |-> TRUE, visited |-> b.visited,
                   queue |-> Tail(b.queue)]
             ELSE ShortestPathFor(left - 1, g, size, e,
                      visit_neighbors(x, y, g, size, b.visited, Tail(b.queue)))

\* The while loop of shortest_path, entered with the given level.
\* b is the BFS state at the loop test; lvl is the level.
RECURSIVE ShortestPathWhile(_, _, _, _, _)
RECURSIVE ShortestPathBody(_, _, _, _, _)
ShortestPathWhile(g, size, e, b, lvl) ==
    IF ~(Len(b.queue) > 0)
    THEN [ret |-> -1, level |-> lvl, visited |-> b.visited, queue |-> b.queue]
    ELSE ShortestPathBody(g, size, e,
             ShortestPathFor(Len(b.queue), g, size, e, b), lvl + 1)

\* ShortestPathBody with the level raised after the for loop instead of
\* before it: the level returned counts edges.
ShortestPathBodyLevelAfter(g, size, e, r, lvl) ==
    IF r.found
    THEN [ret |-> lvl - 1, level |-> lvl - 1, visited |-> r.visited,
          queue |-> r.queue]
    ELSE ShortestPathWhile(g, size, e, r, lvl)

\* r is the BFS state the for loop of this level left: return the level when
\* it popped the end, else test the loop again.
ShortestPathBody(g, size, e, r, lvl) ==
    IF r.found
    THEN [ret |-> lvl, level |-> lvl, visited |-> r.visited, queue |-> r.queue]
    ELSE ShortestPathWhile(g, size, e, r, lvl)

\* shortest_path with a shortcut `if start == end: return 0` after its wall
\* test.
shortest_path_same_cell_shortcut(g, s, end) ==
    LET size == GridSize(g)
        e == IF end = None THEN <<size - 1, size - 1>> ELSE end
    IN  IF g[s[1]][s[2]] = WALL \/ g[e[1]][e[2]] = WALL
        THEN [ret |-> -1, level |-> 0, visited |-> AllFalse(size),
              queue |-> << >>]
        ELSE IF s = e
        THEN [ret |-> 0, level |-> 0, visited |-> AllFalse(size),
              queue |-> << >>]
        ELSE ShortestPathWhile(g, size, e,
                 [visited |-> SetCell(AllFalse(size), s[1], s[2], TRUE),
                  queue |-> <<s>>], 0)

\* shortest_path without its wall test on the start and the end.
shortest_path_unguarded(g, s, end) ==
    LET size == GridSize(g)
        e == IF end = None THEN <<size - 1, size - 1>> ELSE end
    IN  ShortestPathWhile(g, size, e,
            [visited |-> SetCell(AllFalse(size), s[1], s[2], TRUE),
             queue |-> <<s>>], 0)

\* shortest_path(grid, start, end) with end = None for the default corner.
\* The record holds the value returned (ret) and the locals at the return:
\* level is the number of iterations of the while loop that were started.
shortest_path(g, s, end) ==
    LET size == GridSize(g)
        e == IF end = None THEN <<size - 1, size - 1>> ELSE end
    IN  IF g[s[1]][s[2]] = WALL \/ g[e[1]][e[2]] = WALL
        THEN [ret |-> -1, level |-> 0, visited |-> AllFalse(size),
              queue |-> << >>]
        ELSE ShortestPathWhile(g, size, e,
                 [visited |-> SetCell(AllFalse(size), s[1], s[2], TRUE),
                  queue |-> <<s>>], 0)

\* ---------------------------------------------- states.py: SimulationState

\* SimulationState.__init__ leaving the start cell unmarked.
SimulationInitStartUnmarked(g, s, e) ==
    /\ visited = AllFalse(GridSize(g))
    /\ queue = <<s>>
    /\ parents = [c \in {s} |-> None]
    /\ level = 0
    /\ line_sprites = << >>
    /\ final_path = << >>
    /\ next_state = "None"
    /\ final_level = 0

\* SimulationState.__init__ : the BFS fields after construction.
SimulationInit(g, s, e) ==
    /\ visited = SetCell(AllFalse(GridSize(g)), s[1], s[2], TRUE)
    /\ queue = <<s>>
    /\ parents = [c \in {s} |-> None]
    /\ level = 0
    /\ line_sprites = << >>
    /\ final_path = << >>
    /\ next_state = "None"
    /\ final_level = 0

\* for neighbor in neighbors: self.parents[neighbor] = (x, y)
RECURSIVE SetParents(_, _, _)
SetParents(par, neighbors, cell) ==
    IF neighbors = << >> THEN par
    ELSE LET n == Head(neighbors)
         IN  SetParents([c \in DOMAIN par \cup {n} |->
                            IF c = n THEN cell ELSE par[c]],
                        Tail(neighbors), cell)

\* AddLines drawing each line from the neighbour to the cell.
AddLinesReversed(lines, neighbors, cell) ==
    lines \o [i \in 1 .. Len(neighbors) |-> <<neighbors[i], cell, "thin">>]

\* for neighbor in neighbors: self.add_line((x, y), neighbor), a thin line
AddLines(lines, neighbors, cell) ==
    lines \o [i \in 1 .. Len(neighbors) |-> <<cell, neighbors[i], "thin">>]

\* SimulationState.visit_neighbors(x, y)
WithParents(r, par, lines, x, y) ==
    [visited |-> r.visited,
     queue |-> r.queue,
     parents |-> SetParents(par, r.neighbors, <<x, y>>),
     lines |-> AddLines(lines, r.neighbors, <<x, y>>)]

sim_visit_neighbors(x, y, g, vis, q, par, lines) ==
    WithParents(visit_neighbors(x, y, g, GridSize(g), vis, q), par, lines,
                x, y)

\* BuildLoop stopping one cell early: the start is not marked.
RECURSIVE BuildLoopStopsEarly(_, _, _)
BuildLoopStopsEarly(current, s, par) ==
    IF current = s \/ par[current] = s THEN << >>
    ELSE <<par[current]>> \o BuildLoopStopsEarly(par[current], s, par)

\* SimulationState.build_final_path: the cells marked "final_path", from the
\* end back to the start.  A missing key raises KeyError; the walk is only
\* made when the end was dequeued, and every dequeued cell is a key.
RECURSIVE BuildLoop(_, _, _)
BuildLoop(current, s, par) ==
    IF current = s THEN << >>
    ELSE <<par[current]>> \o BuildLoop(par[current], s, par)

build_final_path(s, e, par) == <<e>> \o BuildLoop(e, s, par)

\* self.add_line(current, previous, line_width=THICK_LINE_WIDTH) for every
\* step of the walk of build_final_path over the cells of path.
FinalPathLines(path) ==
    [i \in 1 .. Len(path) - 1 |-> <<path[i + 1], path[i], "thick">>]

\* PerformFor without the snapshot of the queue length: it pops until the
\* queue is empty, the cells enqueued in this call included.
RECURSIVE PerformForNoSnapshot(_, _, _, _)
PerformForNoSnapshot(left, g, e, b) ==
    IF Len(b.queue) = 0
    THEN [found |-> FALSE, visited |-> b.visited, queue |-> b.queue,
          parents |-> b.parents, lines |-> b.lines]
    ELSE LET x == Head(b.queue)[1]
             y == Head(b.queue)[2]
         IN  IF <<x, y>> = e
             THEN [found |-> TRUE, visited |-> b.visited,
                   queue |-> Tail(b.queue), parents |-> b.parents,
                   lines |-> b.lines]
             ELSE PerformForNoSnapshot(left, g, e,
                      sim_visit_neighbors(x, y, g, b.visited, Tail(b.queue),
                                          b.parents, b.lines))

\* PerformFor testing for the end after the neighbours of the popped cell
\* were visited.
RECURSIVE PerformForVisitsEnd(_, _, _, _)
PerformForVisitsEnd(left, g, e, b) ==
    IF left = 0
    THEN [found |-> FALSE, visited |-> b.visited, queue |-> b.queue,
          parents |-> b.parents, lines |-> b.lines]
    ELSE LET x == Head(b.queue)[1]
             y == Head(b.queue)[2]
             r == sim_visit_neighbors(x, y, g, b.visited, Tail(b.queue),
                                      b.parents, b.lines)
         IN  IF <<x, y>> = e
             THEN [found |-> TRUE, visited |-> r.visited, queue |-> r.queue,
                   parents |-> r.parents, lines |-> r.lines]
             ELSE PerformForVisitsEnd(left - 1, g, e, r)

\* The for loop of perform_update: `left` more cells of the level are popped.
\* b is the BFS state, a record with the fields visited, queue, parents and
\* lines.
RECURSIVE PerformFor(_, _, _, _)
PerformFor(left, g, e, b) ==
    IF left = 0
    THEN [found |-> FALSE, visited |-> b.visited, queue |-> b.queue,
          parents |-> b.parents, lines |-> b.lines]
    ELSE LET x == Head(b.queue)[1]
             y == Head(b.queue)[2]
         IN  IF <<x, y>> = e
             THEN [found |-> TRUE, visited |-> b.visited,
                   queue |-> Tail(b.queue), parents |-> b.parents,
                   lines |-> b.lines]
             ELSE PerformFor(left - 1, g, e,
                      sim_visit_neighbors(x, y, g, b.visited, Tail(b.queue),
                                          b.parents, b.lines))

\* EngineFrame with the cells marked visited written into the grid as well.
EngineFrameMarksGrid ==
    /\ grid' = [x \in DOMAIN grid |->
                  [y \in DOMAIN grid[x] |->
                      IF visited'[x][y] THEN WALL ELSE grid[x][y]]]
    /\ UNCHANGED << start_pos, end_pos, one_shot, gen >>

\* What perform_update and the functions it calls leave alone: the grid is
\* only read (grid[x][y] in is_valid), the ends are only compared.
EngineFrame == UNCHANGED << grid, start_pos, end_pos, one_shot, gen >>

\* perform_update requesting NoPathState in the call that empties the queue
\* without dequeuing the end.
perform_update_eager ==
    /\ IF Len(queue) = 0
       THEN /\ next_state' = "NoPathState"
            /\ final_level' = level
            /\ UNCHANGED << visited, queue, parents, level, line_sprites,
                            final_path >>
       ELSE \E r \in {PerformFor(Len(queue), grid, end_pos,
                        [visited |-> visited, queue |-> queue,
                         parents |-> parents, lines |-> line_sprites])} :
                /\ level' = level + 1
                /\ visited' = r.visited
                /\ queue' = r.queue
                /\ parents' = r.parents
                /\ IF r.found
                   THEN \E path \in {build_final_path(start_pos, end_pos,
                                                      r.parents)} :
                           /\ final_path' = path
                           /\ line_sprites' = r.lines \o FinalPathLines(path)
                           /\ next_state' = "CompletionState"
                           /\ final_level' = level + 1
                   ELSE /\ line_sprites' = r.lines
                        /\ next_state' = IF Len(r.queue) = 0
                                         THEN "NoPathState" ELSE next_state
                        /\ final_level' = IF Len(r.queue) = 0
                                          THEN level + 1 ELSE final_level
                        /\ UNCHANGED final_path
    /\ EngineFrame

\* RequestNoPath counting a level instead of requesting the transition.
RequestNoPathCountsOn ==
    /\ level' = level + 1
    /\ UNCHANGED << visited, queue, parents, line_sprites, final_path,
                    next_state, final_level >>

\* The branch of perform_update taken on an empty queue:
\* self.game.next_state = NoPathState(self.game, entities, self.level); return
RequestNoPath ==
    /\ next_state' = "NoPathState"
    /\ final_level' = level
    /\ UNCHANGED << visited, queue, parents, level, line_sprites,
                    final_path >>

\* SimulationState.perform_update: one call.
perform_update ==
    /\ IF Len(queue) = 0
       THEN RequestNoPath
       ELSE \E r \in {PerformFor(Len(queue), grid, end_pos,
                        [visited |-> visited, queue |-> queue,
                         parents |-> parents, lines |-> line_sprites])} :
                /\ level' = level + 1
                /\ visited' = r.visited
                /\ queue' = r.queue
                /\ parents' = r.parents
                /\ IF r.found
                   THEN \E path \in {build_final_path(start_pos, end_pos,
                                                      r.parents)} :
                           /\ final_path' = path
                           /\ line_sprites' = r.lines \o FinalPathLines(path)
                           /\ next_state' = "CompletionState"
                           /\ final_level' = level + 1
                   ELSE /\ line_sprites' = r.lines
                        /\ UNCHANGED << final_path, next_state, final_level >>
    /\ EngineFrame

\* perform_update driven directly, while no transition has been requested.
PerformUpdate ==
    /\ next_state = "None"
    /\ perform_update
    /\ UNCHANGED game

\* perform_update called again on a SimulationState that has requested its
\* transition (nothing in perform_update prevents the call).
PerformUpdateAgain ==
    /\ next_state # "None"
    /\ perform_update
    /\ UNCHANGED game

\* --------------------------------------------------- the one-shot call

NotCalled ==
    [called |-> FALSE, ret |-> 0, level |-> 0, visited |-> << >>,
     queue |-> << >>]

\* The default end of shortest_path: the bottom-right corner.
Corner(g) == <<GridSize(g) - 1, GridSize(g) - 1>>

\* result = shortest_path(grid, start_pos, end_pos), the end left out (None)
\* or given when it is the default corner.  The call is made once the
\* stepwise run has requested its transition; the two share no state.
CallShortestPath ==
    /\ ~one_shot.called
    /\ next_state # "None"
    /\ \E end \in {end_pos} \cup
                  (IF end_pos = Corner(grid) THEN {None} ELSE {}) :
          \E r \in {shortest_path(grid, start_pos, end)} :
             one_shot' = [called |-> TRUE, ret |-> r.ret, level |-> r.level,
                          visited |-> r.visited, queue |-> r.queue]
    /\ UNCHANGED << grid, start_pos, end_pos, gen, game >>
    /\ UNCHANGED simVars

\* ------------------------------------------------------------- the inputs

\* A grid written as in the tests, a list of rows: grid[x][y] is rows[x][y].
GridFromRows(rows) ==
    [x \in 0 .. Len(rows) - 1 |-> [y \in 0 .. Len(rows) - 1 |-> rows[x + 1][y + 1]]]

Test2x2 == GridFromRows(<< <<0, 1>>, <<1, 0>> >>)

Test3x3 == GridFromRows(<< <<0, 0, 0>>, <<1, 1, 0>>, <<1, 1, 0>> >>)

Test5x5 ==
    GridFromRows(<< <<0, 0, 0, 1, 1>>,
                    <<1, 0, 1, 1, 1>>,
                    <<1, 0, 1, 0, 1>>,
                    <<0, 0, 1, 0, 0>>,
                    <<1, 0, 0, 0, 0>> >>)

Test5x5Unsolvable ==
    GridFromRows(<< <<0, 0, 0, 1, 1>>,
                    <<1, 0, 1, 1, 1>>,
                    <<1, 1, 1, 0, 1>>,
                    <<0, 0, 1, 0, 0>>,
                    <<1, 0, 0, 0, 0>> >>)

TestGrids == {Test2x2, Test3x3, Test5x5, Test5x5Unsolvable}

\* The start/end pairs examined on a grid of size n: every pair of cells of
\* which at least one is the default of shortest_path (start (0, 0), end the
\* corner).  They include start = end, adjacent cells and wall cells.
EndPairs(n) ==
    {p \in Cells(n) \X Cells(n) : p[1] = <<0, 0>> \/ p[2] = <<n - 1, n - 1>>}

GenOff == [pc |-> "off"]

\* No Game exists.
GameOff == [pc |-> "off"]

\* The inputs: a square grid of size 1..MaxSize with at most MaxWalls walls
\* and a pair of its cells, or a grid of the tests with the default ends.
\* The SimulationState is constructed on them; shortest_path is not yet
\* called.
Init ==
    /\ \/ \E n \in 1 .. MaxSize :
             /\ grid \in Grids[n]
             /\ \E p \in EndPairs(n) :
                   /\ start_pos = p[1]
                   /\ end_pos = p[2]
       \/ /\ grid \in TestGrids
          /\ start_pos = <<0, 0>>
          /\ end_pos = Corner(grid)
    /\ SimulationInit(grid, start_pos, end_pos)
    /\ one_shot = NotCalled
    /\ gen = GenOff
    /\ game = GameOff

Next == PerformUpdate \/ CallShortestPath

Spec == Init /\ [][Next]_vars

\* The SimulationState alone, stepped before and after it has requested its
\* transition.
NextRedrive == PerformUpdate \/ PerformUpdateAgain

SpecRedrive == Init /\ [][NextRedrive]_vars

\* ------------------------------------------- algorithm.py: create_grid

\* The predicates with create_good_grid asking for a path of two cells or
\* more.
PredicateStrict(fn, x) ==
    IF fn = "create_good_grid" THEN x > 1 ELSE x = -1

\* The predicate create_good_grid / create_bad_grid hands to create_grid.
Predicate(fn, x) ==
    IF fn = "create_good_grid" THEN x > 0 ELSE x = -1

\* The size test off by one.
SizeRefusedOffByOne(size) == size < 2

\* if size < 3: raise ValueError
SizeRefused(size) == size < 3

\* ForceOpen opening the start only.
ForceOpenStartOnly(g, s, e) == SetCell(g, s[1], s[2], NON_WALL)

\* grid[start][..] = NON_WALL; grid[end][..] = NON_WALL
ForceOpen(g, s, e) ==
    SetCell(SetCell(g, s[1], s[2], NON_WALL), e[1], e[2], NON_WALL)

\* Attempt running shortest_path before the ends are forced open.
AttemptTestsFirst(sample, s, e) ==
    [grid |-> ForceOpen(sample, s, e),
     shortest_path_length |-> shortest_path(sample, s, e).ret]

\* One iteration of the loop of create_grid on the sampled grid: the grid
\* with its ends forced open and the one-shot result computed on it.
Attempt(sample, s, e) ==
    [grid |-> ForceOpen(sample, s, e),
     shortest_path_length |-> shortest_path(ForceOpen(sample, s, e), s, e).ret]

\* create_good_grid(size, start, end) / create_bad_grid(size, start, end) is
\* entered: create_grid checks the size and defaults the end.
CreateGridEnter ==
    /\ gen.pc = "call"
    /\ IF SizeRefused(gen.size)
       THEN /\ gen' = [gen EXCEPT !.pc = "raised"]
            /\ UNCHANGED end_pos
       ELSE /\ gen' = [gen EXCEPT !.pc = "loop"]
            /\ end_pos' = IF end_pos = None
                          THEN <<gen.size - 1, gen.size - 1>>
                          ELSE end_pos
    /\ UNCHANGED << grid, start_pos, one_shot, game >>
    /\ UNCHANGED simVars

\* The loop giving up after a rejected grid.
CreateGridIterationGivesUp ==
    /\ gen.pc = "loop"
    /\ \E sample \in Grids[gen.size] :
          \E a \in {Attempt(sample, start_pos, end_pos)} :
             IF Predicate(gen.fn, a.shortest_path_length)
             THEN /\ grid' = a.grid
                  /\ gen' = [gen EXCEPT !.pc = "returned",
                                        !.shortest_path_length =
                                            a.shortest_path_length,
                                        !.ret = a.grid]
             ELSE /\ grid' = None
                  /\ gen' = [gen EXCEPT !.pc = "raised", !.rejected = TRUE]
    /\ UNCHANGED << start_pos, end_pos, one_shot, game >>
    /\ UNCHANGED simVars

\* One iteration of `while True`: a grid is sampled, its ends are forced
\* open, shortest_path is run on it and the grid is returned if the
\* predicate accepts the result.  A rejected grid and its result are
\* dropped (the next iteration overwrites both locals before anything reads
\* them); gen.rejected records that some iteration rejected its grid.
CreateGridIteration ==
    /\ gen.pc = "loop"
    /\ \E sample \in Grids[gen.size] :
          \E a \in {Attempt(sample, start_pos, end_pos)} :
             IF Predicate(gen.fn, a.shortest_path_length)
             THEN /\ grid' = a.grid
                  /\ gen' = [gen EXCEPT !.pc = "returned",
                                        !.shortest_path_length =
                                            a.shortest_path_length,
                                        !.ret = a.grid]
             ELSE /\ grid' = None
                  /\ gen' = [gen EXCEPT !.rejected = TRUE]
    /\ UNCHANGED << start_pos, end_pos, one_shot, game >>
    /\ UNCHANGED simVars

\* The arguments examined for a size: the start defaults to (0, 0), the end
\* to None; at least one of the two is left to its default.
GenArgs(n) ==
    {p \in ({<<0, 0>>} \cup Cells(n)) \X ({None} \cup Cells(n)) :
        p[1] = <<0, 0>> \/ p[2] = None}

\* One call of create_good_grid or create_bad_grid with a size 0..MaxSize;
\* no SimulationState exists.
InitGen ==
    /\ \E n \in 0 .. MaxSize, fn \in {"create_good_grid", "create_bad_grid"} :
          /\ gen = [pc |-> "call", fn |-> fn, size |-> n, rejected |-> FALSE,
                    shortest_path_length |-> 0, ret |-> None]
          /\ \E p \in GenArgs(n) :
                /\ start_pos = p[1]
                /\ end_pos = p[2]
    /\ grid = None
    /\ visited = << >>
    /\ queue = << >>
    /\ parents = << >>
    /\ level = 0
    /\ line_sprites = << >>
    /\ final_path = << >>
    /\ next_state = "None"
    /\ final_level = 0
    /\ one_shot = NotCalled
    /\ game = GameOff

NextGen == CreateGridEnter \/ CreateGridIteration

SpecGen == InitGen /\ [][NextGen]_vars

\* ------------------------------------------- reference notions (no BFS code)

\* Two distinct cells a king's move apart.
Adjacent8(a, b) ==
    /\ a # b
    /\ a[1] - b[1] \in -1 .. 1
    /\ a[2] - b[2] \in -1 .. 1

\* The cells within one more edge of R through open cells.
Grow(g, R) == R \cup {c \in OpenCells(g) : \E d \in R : Adjacent8(c, d)}

\* The least number of edges of a path of cells from R to e whose cells after
\* the first are open, counted from k; -1 when there is none.
RECURSIVE EdgesFrom(_, _, _, _)
RECURSIVE EdgesNext(_, _, _, _, _)
EdgesFrom(g, R, e, k) ==
    IF e \in R THEN k ELSE EdgesNext(g, R, Grow(g, R), e, k)

EdgesNext(g, R, R2, e, k) ==
    IF R2 = R THEN -1 ELSE EdgesFrom(g, R2, e, k + 1)

\* The number of edges of a shortest 8-connected path of open cells from s
\* to e (s and e open), -1 when no such path exists.
Edges(g, s, e) == EdgesFrom(g, {s}, e, 0)

\* An 8-connected path of open cells joins s to e.
Connected(g, s, e) == Edges(g, s, e) # -1

IsOpen(g, c) == g[c[1]][c[2]] # WALL

OpenEnds == IsOpen(grid, start_pos) /\ IsOpen(grid, end_pos)

DefaultEnds == start_pos = <<0, 0>> /\ end_pos = Corner(grid)

\* The stepwise run has requested its transition.
Requested == next_state # "None"

\* -------------------------------------------------------------- properties

\* C1 (drain equivalence): with open start and end, the level handed to
\* CompletionState by the stepwise run equals the value shortest_path
\* returns, and the stepwise run ends in NoPathState exactly when
\* shortest_path returns -1.
C1_DrainEquivalence ==
    (OpenEnds /\ one_shot.called /\ Requested) =>
        /\ next_state = "CompletionState" => one_shot.ret = final_level
        /\ next_state = "NoPathState" <=> one_shot.ret = -1

\* C1 witness: a stepwise run that dequeued the end at level 4, after a detour.
C1_Witness ==
    /\ OpenEnds /\ one_shot.called
    /\ next_state = "CompletionState"
    /\ final_level = 4
    /\ Cardinality(WallCells(grid)) > 0

\* C2: when an 8-connected path of open cells joins the open start and end,
\* shortest_path returns the number of cells of a shortest one, both ends
\* counted: 2, 4 and 7 on the grids of the tests.
C2_CellsOnShortestPath ==
    one_shot.called =>
        /\ (OpenEnds /\ Connected(grid, start_pos, end_pos)) =>
               one_shot.ret = Edges(grid, start_pos, end_pos) + 1
        /\ (grid = Test2x2 /\ DefaultEnds) => one_shot.ret = 2
        /\ (grid = Test3x3 /\ DefaultEnds) => one_shot.ret = 4
        /\ (grid = Test5x5 /\ DefaultEnds) => one_shot.ret = 7

\* C2 witness: the 5x5 grid of the tests, answered 7.
C2_Witness ==
    one_shot.called /\ grid = Test5x5 /\ DefaultEnds /\ one_shot.ret = 7

\* C3: with open start and end, shortest_path returns -1 if and only if no
\* 8-connected path of open cells joins them.
C3_MinusOneIffDisconnected ==
    (one_shot.called /\ OpenEnds) =>
        (one_shot.ret = -1 <=> ~Connected(grid, start_pos, end_pos))

\* C3 witness: the unsolvable 5x5 grid of the tests, answered -1.
C3_Witness ==
    /\ one_shot.called /\ grid = Test5x5Unsolvable /\ DefaultEnds
    /\ OpenEnds /\ one_shot.ret = -1

\* C4 as claimed: the level counts edges, so distinct adjacent open ends
\* give 1 (one-shot and stepwise) and 0 is produced only when start = end.
C4_AsClaimed ==
    /\ (one_shot.called /\ OpenEnds /\ Adjacent8(start_pos, end_pos)) =>
           one_shot.ret = 1
    /\ (OpenEnds /\ Adjacent8(start_pos, end_pos) /\ Requested) =>
           (next_state = "CompletionState" /\ final_level = 1)
    /\ (one_shot.called /\ one_shot.ret = 0) => start_pos = end_pos

\* C4 amended: the level counts the cells of the path (edges + 1): distinct
\* adjacent open ends give 2, one-shot and stepwise; a result of 1 is
\* produced only when start = end, and 0 is never produced.
C4_LevelCountsCells ==
    /\ (one_shot.called /\ OpenEnds /\ Adjacent8(start_pos, end_pos)) =>
           one_shot.ret = 2
    /\ (OpenEnds /\ Adjacent8(start_pos, end_pos) /\ Requested) =>
           (next_state = "CompletionState" /\ final_level = 2)
    /\ (one_shot.called /\ one_shot.ret = 1) => start_pos = end_pos
    /\ (next_state = "CompletionState" /\ final_level = 1) =>
           start_pos = end_pos
    /\ one_shot.called => one_shot.ret # 0
    /\ next_state = "CompletionState" => final_level # 0

\* C4 witness: adjacent distinct open ends, both runs finished.
C4_Witness ==
    /\ one_shot.called /\ OpenEnds /\ Adjacent8(start_pos, end_pos)
    /\ next_state = "CompletionState"
    /\ GridSize(grid) = 3

\* C5 as claimed: start = end on an open cell gives 0 (FOUND with level 0).
C5_AsClaimed ==
    /\ (one_shot.called /\ OpenEnds /\ start_pos = end_pos) =>
           one_shot.ret = 0
    /\ (OpenEnds /\ start_pos = end_pos /\ Requested) =>
           (next_state = "CompletionState" /\ final_level = 0)

\* C5 amended: start = end on an open cell gives 1: shortest_path returns 1
\* and the stepwise run requests CompletionState with level 1.
C5_SameCellGivesOne ==
    /\ (one_shot.called /\ OpenEnds /\ start_pos = end_pos) =>
           one_shot.ret = 1
    /\ (OpenEnds /\ start_pos = end_pos /\ Requested) =>
           (next_state = "CompletionState" /\ final_level = 1)

\* C5 witness: start = end, open, both runs finished.
C5_Witness ==
    /\ one_shot.called /\ OpenEnds /\ start_pos = end_pos
    /\ Requested
    /\ GridSize(grid) = 3

\* C6: when the start or the end is a wall, shortest_path returns -1 before
\* its loop: no level is started, nothing is marked visited or queued.
C6_WallEndGivesMinusOne ==
    (one_shot.called /\ ~OpenEnds) =>
        /\ one_shot.ret = -1
        /\ one_shot.level = 0
        /\ one_shot.visited = AllFalse(GridSize(grid))
        /\ one_shot.queue = << >>

\* C6 witness: start = end on a wall cell, on a grid with open cells.
C6_Witness ==
    /\ one_shot.called /\ start_pos = end_pos
    /\ ~IsOpen(grid, start_pos)
    /\ Cardinality(OpenCells(grid)) > 2

\* C7 as claimed: a SimulationState on a wall start or a wall end is refused:
\* nothing is visited, queued or given a parent, and no step is taken.
C7_AsClaimed ==
    ~OpenEnds =>
        /\ visited = AllFalse(GridSize(grid))
        /\ queue = << >>
        /\ DOMAIN parents = {}
        /\ level = 0
        /\ next_state = "None"

\* The path build_final_path marked, read from the start to the end.
RECURSIVE Reverse(_)
Reverse(s) == IF s = << >> THEN << >> ELSE Append(Reverse(Tail(s)), Head(s))

PathCells == Reverse(final_path)

\* Every consecutive pair of the sequence is 8-adjacent.
Chain(p) == \A i \in 1 .. Len(p) - 1 : Adjacent8(p[i], p[i + 1])

\* C8 as claimed: on FOUND with level L the reconstructed path has L + 1
\* cells, from start to end, consecutive cells 8-adjacent, every cell open.
C8_AsClaimed ==
    next_state = "CompletionState" =>
        /\ Len(PathCells) = final_level + 1
        /\ PathCells[1] = start_pos
        /\ PathCells[Len(PathCells)] = end_pos
        /\ Chain(PathCells)
        /\ \A i \in 1 .. Len(PathCells) : IsOpen(grid, PathCells[i])

\* C8 amended: on FOUND with level L the reconstructed path has exactly L
\* cells, begins with start, ends with end, consecutive cells are 8-adjacent
\* and every cell after the first is open; the first, start, is open unless
\* the SimulationState was built on a wall start.
C8_PathOfLevelCells ==
    next_state = "CompletionState" =>
        /\ Len(PathCells) = final_level
        /\ PathCells[1] = start_pos
        /\ PathCells[Len(PathCells)] = end_pos
        /\ Chain(PathCells)
        /\ \A i \in 2 .. Len(PathCells) : IsOpen(grid, PathCells[i])
        /\ IsOpen(grid, start_pos) =>
               \A i \in 1 .. Len(PathCells) : IsOpen(grid, PathCells[i])

\* C8 witness: a path of 4 cells rebuilt on a grid with walls.
C8_Witness ==
    /\ next_state = "CompletionState"
    /\ OpenEnds
    /\ final_level = 4
    /\ Len(final_path) = 4
    /\ Cardinality(WallCells(grid)) = MaxWalls


\* C9: a grid returned by create_good_grid has shortest_path > 0 and one
\* returned by create_bad_grid has shortest_path = -1, for the start and end
\* of the call; the value the predicate accepted is the one-shot result of
\* the very grid returned.
C9_ReturnedGridAccepted ==
    gen.pc = "returned" =>
        /\ gen.ret = grid
        /\ Predicate(gen.fn, gen.shortest_path_length)
        /\ \A result \in {shortest_path(gen.ret, start_pos, end_pos).ret} :
              /\ gen.shortest_path_length = result
              /\ gen.fn = "create_good_grid" => result > 0
              /\ gen.fn = "create_bad_grid" => result = -1

\* C9 witness: create_bad_grid returned a grid after rejecting another.
C9_Witness ==
    /\ gen.pc = "returned"
    /\ gen.fn = "create_bad_grid"
    /\ gen.rejected
    /\ shortest_path(gen.ret, start_pos, end_pos).ret = -1

\* C10: a call with size < 3 raises at once: no iteration of the loop is
\* run (no grid sampled, no shortest_path call) and no grid is returned;
\* a call with size >= 3 is not refused.
C10_SmallSizeRaises ==
    /\ (gen.pc # "call" /\ gen.size < 3) =>
           /\ gen.pc = "raised"
           /\ ~gen.rejected
           /\ gen.ret = None
           /\ grid = None
    /\ gen.pc = "raised" => gen.size < 3

\* C10 witness: create_good_grid(2) raised.
C10_Witness ==
    /\ gen.pc = "raised"
    /\ gen.fn = "create_good_grid"
    /\ gen.size = 2


\* ------------------------------------------------ perform_update, C11..C20

\* The SimulationState has requested CompletionState (FOUND) or NoPathState
\* (EXHAUSTED).
Terminal == next_state \in {"CompletionState", "NoPathState"}

\* C11 as claimed: a perform_update call on a SimulationState that is FOUND or
\* EXHAUSTED is a no-op: it leaves visited, queue, parents and level
\* unchanged and requests the same terminal state with the same level.
C11_AsClaimed ==
    [][Terminal =>
          /\ UNCHANGED << visited, queue, parents, level >>
          /\ UNCHANGED << next_state, final_level >>]_vars


\* C13 as claimed: a create_good_grid call whose start equals its end never
\* returns a grid.
C13_AsClaimed ==
    (gen.fn = "create_good_grid" /\ start_pos = end_pos) =>
        gen.pc # "returned"

\* C13 amended: with start = end (size >= 3) the one-shot result is 1 on
\* every sampled grid, so create_good_grid rejects no grid and returns the
\* first one with shortest_path_length 1; create_bad_grid never returns.
C13_SameCellAccepted ==
    (gen.pc \in {"loop", "returned"} /\ start_pos = end_pos) =>
        /\ gen.fn = "create_good_grid" =>
              /\ ~gen.rejected
              /\ gen.pc = "returned" =>
                    /\ gen.shortest_path_length = 1
                    /\ IsOpen(gen.ret, start_pos)
        /\ gen.fn = "create_bad_grid" => gen.pc # "returned"

\* C13 witness: create_good_grid returned a grid holding walls for
\* start = (2, 2) and the end defaulted to the same corner.
C13_Witness ==
    /\ gen.pc = "returned"
    /\ gen.fn = "create_good_grid"
    /\ start_pos = end_pos
    /\ start_pos = <<2, 2>>
    /\ WallCells(gen.ret) # {}
    /\ gen.shortest_path_length = 1


\* The cells at exactly k edges from s: R is the set of cells within the
\* distance reached so far, F those at exactly that distance.
RECURSIVE LayerFrom(_, _, _, _)
RECURSIVE LayerNext(_, _, _, _)
LayerFrom(g, R, F, k) ==
    IF k = 0 THEN F ELSE LayerNext(g, R, Grow(g, R), k)

LayerNext(g, R, R2, k) ==
    IF R2 = R THEN {} ELSE LayerFrom(g, R2, R2 \ R, k - 1)

\* The cells whose BFS distance from s is k edges (8-connectivity, every
\* cell after s open).
Layer(g, s, k) == LayerFrom(g, {s}, {s}, k)

Range(q) == {q[i] : i \in 1 .. Len(q)}

NoDuplicates(q) == Cardinality(Range(q)) = Len(q)

VisitedCells == {c \in Cells(GridSize(grid)) : visited[c[1]][c[2]]}

\* The cells marked visited by the step.
NewlyVisited ==
    {c \in Cells(GridSize(grid)) : ~visited[c[1]][c[2]] /\ visited'[c[1]][c[2]]}

\* The step dequeued the first k cells of the queue and nothing else:
\* the queue after it is the rest of the old queue followed by the cells
\* the step marked visited, each once.
DequeuedOldOnly(k) ==
    /\ Len(queue') = Len(queue) - k + Cardinality(NewlyVisited)
    /\ SubSeq(queue', 1, Len(queue) - k) = SubSeq(queue, k + 1, Len(queue))
    /\ Range(SubSeq(queue', Len(queue) - k + 1, Len(queue'))) = NewlyVisited

\* C14: a cell enqueued during a perform_update call is not dequeued in that
\* call (the call dequeues cells of the old queue only and every cell it
\* marks visited is still queued after it), and in every non-terminal state
\* between calls the queue holds, each once, exactly the cells at BFS
\* distance `level` from start, all of them visited.
C14_LevelByLevel ==
    /\ [](next_state = "None" =>
            \A layer \in {Layer(grid, start_pos, level)} :
               /\ Range(queue) = layer
               /\ layer \subseteq VisitedCells
               /\ NoDuplicates(queue))
    /\ [][\E k \in 0 .. Len(queue) : DequeuedOldOnly(k)]_vars

\* C14 witness: two calls made on a grid with walls, no transition
\* requested, several cells of distance 2 queued.
C14_Witness ==
    /\ next_state = "None"
    /\ level = 2
    /\ Len(queue) >= 2
    /\ WallCells(grid) # {}
    /\ Range(queue) = Layer(grid, start_pos, 2)


\* The layers of the BFS from s, nearest first: the k-th element is the set
\* of cells at k - 1 edges from s.
RECURSIVE LayersFrom(_, _, _, _)
RECURSIVE LayersNext(_, _, _, _)
LayersFrom(g, R, F, acc) == LayersNext(g, R, Grow(g, R), Append(acc, F))

LayersNext(g, R, R2, acc) ==
    IF R2 = R THEN acc ELSE LayersFrom(g, R2, R2 \ R, acc)

Layers(g, s) == LayersFrom(g, {s}, {s}, << >>)

\* C15 as claimed: after any number of perform_update calls start maps to
\* None and every other key c of parents maps to a cell 8-adjacent to c whose
\* BFS distance from start is one less than that of c; an entry of parents
\* is never removed or reassigned.
C15_AsClaimed ==
    /\ [](\A L \in {Layers(grid, start_pos)} :
             /\ start_pos \in DOMAIN parents
             /\ parents[start_pos] = None
             /\ \A c \in DOMAIN parents \ {start_pos} :
                   /\ Adjacent8(c, parents[c])
                   /\ \E k \in 1 .. Len(L) - 1 :
                         parents[c] \in L[k] /\ c \in L[k + 1])
    /\ [][\A c \in DOMAIN parents :
             c \in DOMAIN parents' /\ parents'[c] = parents[c]]_vars


\* A perform_update call: every call changes level or next_state.
Called == simVars' # simVars

\* C16 (lazy exhaustion): a call on a non-empty queue raises level by one and
\* never requests NoPathState, also when it leaves the queue empty without
\* dequeuing the end (the engine stays non-terminal); a call on an empty
\* queue requests NoPathState with the current level and leaves visited,
\* queue, parents and level alone; so the level reported by NoPathState is
\* the number of non-empty frontiers (BFS layers) processed.
C16_LazyExhaustion ==
    /\ [][Called =>
            IF Len(queue) = 0
            THEN /\ next_state' = "NoPathState"
                 /\ final_level' = level
                 /\ UNCHANGED << visited, queue, parents, level >>
            ELSE /\ level' = level + 1
                 /\ next_state' \in {"None", "CompletionState"}
                 /\ next_state' = "CompletionState" =>
                       end_pos \in Range(queue) \ Range(queue')]_vars
    /\ [](next_state = "NoPathState" =>
             /\ Len(queue) = 0
             /\ final_level = level
             /\ final_level = Len(Layers(grid, start_pos)))

\* C16 witness: with open ends, the third call emptied the queue without
\* dequeuing the end and no transition is requested yet.
C16_Witness ==
    /\ OpenEnds
    /\ next_state = "None"
    /\ Len(queue) = 0
    /\ level = 3


\* The call dequeues the end: it requests CompletionState.
DequeuesEnd == next_state = "None" /\ next_state' = "CompletionState"

\* The end is the k-th cell of the queue, and the first one equal to it.
EndAt(k) ==
    /\ queue[k] = end_pos
    /\ \A i \in 1 .. k - 1 : queue[i] # end_pos

\* C17 as claimed: in the call that dequeues the end the cells queued behind
\* the end stay queued, and no neighbour of the end or of those cells is
\* marked visited, given a parent or enqueued.
C17_AsClaimed ==
    [][DequeuesEnd =>
          \E k \in 1 .. Len(queue) :
             /\ EndAt(k)
             /\ SubSeq(queue', 1, Len(queue) - k)
                    = SubSeq(queue, k + 1, Len(queue))
             /\ \A c \in NewlyVisited \cup (DOMAIN parents' \ DOMAIN parents)
                         \cup (Range(queue') \ Range(queue)) :
                   \A i \in k .. Len(queue) : ~Adjacent8(c, queue[i])]_vars

\* C17 amended: the call that dequeues the end stops at it: it requests
\* CompletionState with the raised level, the cells queued behind the end
\* stay queued in their order, followed by the cells the call marked
\* visited, and each of those was reached from (has as parent) a cell
\* dequeued before the end: neither the end nor a cell behind it is expanded.
C17_EarlyExit ==
    [][DequeuesEnd =>
          \E k \in 1 .. Len(queue) :
             /\ EndAt(k)
             /\ level' = level + 1 /\ final_level' = level + 1
             /\ DequeuedOldOnly(k)
             /\ DOMAIN parents' \ DOMAIN parents = NewlyVisited
             /\ \A c \in NewlyVisited :
                   \E i \in 1 .. k - 1 : parents'[c] = queue[i]]_vars

\* C17 witness: FOUND with a cell of the end's own layer left in the queue,
\* an unvisited open neighbour of the end, and a cell visited in the last
\* call that is a neighbour of the end.
C17_Witness ==
    /\ next_state = "CompletionState"
    /\ \E i \in 1 .. Len(queue) :
          queue[i] \in Layer(grid, start_pos, final_level - 1)
    /\ \E c \in OpenCells(grid) \ VisitedCells : Adjacent8(c, end_pos)
    /\ \E i \in 1 .. Len(queue) :
          /\ queue[i] \in Layer(grid, start_pos, final_level)
          /\ Adjacent8(queue[i], end_pos)


\* C18 as claimed: a cell is marked visited and enqueued only if it is in
\* bounds, open and not yet visited; so every visited or queued cell is an
\* in-bounds open cell, every queued cell is visited, the queue holds no
\* cell twice and the cells a call enqueues are the cells it marks visited.
C18_AsClaimed ==
    /\ [](/\ VisitedCells \subseteq OpenCells(grid)
          /\ Range(queue) \subseteq OpenCells(grid)
          /\ Range(queue) \subseteq VisitedCells
          /\ NoDuplicates(queue))
    /\ [][/\ NewlyVisited \subseteq OpenCells(grid)
          /\ \E k \in 0 .. Len(queue) : DequeuedOldOnly(k)]_vars


\* C19: start is marked visited from construction on, and a cell marked
\* visited stays marked through every later perform_update call.
C19_VisitedGrows ==
    /\ [](visited[start_pos[1]][start_pos[2]])
    /\ [][\A c \in VisitedCells : visited'[c[1]][c[2]]]_vars

\* C19 witness: after three calls on a grid with walls six cells or more
\* are marked visited, the start among them.
C19_Witness ==
    /\ WallCells(grid) # {}
    /\ level = 3
    /\ start_pos \in VisitedCells
    /\ Cardinality(VisitedCells) >= 6


\* The discovery edges: the lines visit_neighbors added (the thin ones), as
\* <<parent, child>> pairs in the order they were added.
IsThin(l) == l[3] = "thin"

DiscoveryEdges(lines) ==
    [i \in 1 .. Len(SelectSeq(lines, IsThin)) |->
        <<SelectSeq(lines, IsThin)[i][1], SelectSeq(lines, IsThin)[i][2]>>]

\* C20 (per-step deltas): the discovery edges a perform_update call adds are
\* exactly the pairs (parents[c], c) for the cells c the call marks visited,
\* one edge per cell; after every call the keys of parents are exactly the
\* visited cells and there is one discovery edge per visited cell but start.
C20_PerStepDeltas ==
    /\ [][\A old \in {DiscoveryEdges(line_sprites)} :
             \A new \in {DiscoveryEdges(line_sprites')} :
                /\ Len(new) = Len(old) + Cardinality(NewlyVisited)
                /\ SubSeq(new, 1, Len(old)) = old
                /\ Range(SubSeq(new, Len(old) + 1, Len(new)))
                       = {<<parents'[c], c>> : c \in NewlyVisited}]_vars
    /\ [](/\ DOMAIN parents = VisitedCells
          /\ Len(DiscoveryEdges(line_sprites)) = Cardinality(VisitedCells) - 1)

\* C20 witness: FOUND on a grid with walls after five discovery edges or
\* more, the thick lines of the final path drawn besides them.
C20_Witness ==
    /\ WallCells(grid) # {}
    /\ next_state = "CompletionState"
    /\ Len(DiscoveryEdges(line_sprites)) >= 5
    /\ Len(line_sprites) >= Len(DiscoveryEdges(line_sprites)) + 2
    /\ \A e \in Range(DiscoveryEdges(line_sprites)) : parents[e[2]] = e[1]


\* ------------------------------ the order of DIRECTIONS as a parameter

\* algorithm.py and SimulationState with DIRECTIONS replaced by the sequence
\* dirs: the same code, run as if the module constant listed the 8 moves in
\* another order.

\* VisitLoopOrdered leaving the loop at the first valid neighbour.
RECURSIVE VisitLoopOrderedBreaks(_, _, _, _, _, _, _, _)
VisitLoopOrderedBreaks(dirs, i, x, y, g, size, vis, neighbors) ==
    IF i > Len(dirs) THEN [visited |-> vis, neighbors |-> neighbors]
    ELSE LET new_x == x + dirs[i][1]
             new_y == y + dirs[i][2]
         IN  IF is_valid(new_x, new_y, g, size, vis)
             THEN [visited |-> SetCell(vis, new_x, new_y, TRUE),
                   neighbors |-> Append(neighbors, <<new_x, new_y>>)]
             ELSE VisitLoopOrderedBreaks(dirs, i + 1, x, y, g, size, vis,
                                         neighbors)

\* for dx, dy in dirs: ... (the loop of visit_neighbors)
RECURSIVE VisitLoopOrdered(_, _, _, _, _, _, _, _)
VisitLoopOrdered(dirs, i, x, y, g, size, vis, neighbors) ==
    IF i > Len(dirs) THEN [visited |-> vis, neighbors |-> neighbors]
    ELSE LET new_x == x + dirs[i][1]
             new_y == y + dirs[i][2]
         IN  IF is_valid(new_x, new_y, g, size, vis)
             THEN VisitLoopOrdered(dirs, i + 1, x, y, g, size,
                                   SetCell(vis, new_x, new_y, TRUE),
                                   Append(neighbors, <<new_x, new_y>>))
             ELSE VisitLoopOrdered(dirs, i + 1, x, y, g, size, vis, neighbors)

visit_neighbors_ordered(dirs, x, y, g, size, vis, q) ==
    Extend(VisitLoopOrdered(dirs, 1, x, y, g, size, vis, << >>), q)

\* The for loop of shortest_path.
RECURSIVE ShortestPathForOrdered(_, _, _, _, _, _)
ShortestPathForOrdered(dirs, left, g, size, e, b) ==
    IF left = 0 THEN [found |-> FALSE, visited |-> b.visited, queue |-> b.queue]
    ELSE LET x == Head(b.queue)[1]
             y == Head(b.queue)[2]
         IN  IF x = e[1] /\ y = e[2]
             THEN [found |-> TRUE, visited |-> b.visited,
                   queue |-> Tail(b.queue)]
             ELSE ShortestPathForOrdered(dirs, left - 1, g, size, e,
                      visit_neighbors_ordered(dirs, x, y, g, size, b.visited,
                                              Tail(b.queue)))

\* The while loop of shortest_path and the return inside it.
RECURSIVE ShortestPathWhileOrdered(_, _, _, _, _, _)
RECURSIVE ShortestPathBodyOrdered(_, _, _, _, _, _)
ShortestPathWhileOrdered(dirs, g, size, e, b, lvl) ==
    IF ~(Len(b.queue) > 0)
    THEN [ret |-> -1, level |-> lvl]
    ELSE ShortestPathBodyOrdered(dirs, g, size, e,
             ShortestPathForOrdered(dirs, Len(b.queue), g, size, e, b),
             lvl + 1)

ShortestPathBodyOrdered(dirs, g, size, e, r, lvl) ==
    IF r.found
    THEN [ret |-> lvl, level |-> lvl]
    ELSE ShortestPathWhileOrdered(dirs, g, size, e, r, lvl)

\* shortest_path(grid, start, end)
shortest_path_ordered(dirs, g, s, end) ==
    LET size == GridSize(g)
        e == IF end = None THEN <<size - 1, size - 1>> ELSE end
    IN  IF g[s[1]][s[2]] = WALL \/ g[e[1]][e[2]] = WALL
        THEN [ret |-> -1, level |-> 0]
        ELSE ShortestPathWhileOrdered(dirs, g, size, e,
                 [visited |-> SetCell(AllFalse(size), s[1], s[2], TRUE),
                  queue |-> <<s>>], 0)

\* SimulationState.visit_neighbors(x, y): the parents are recorded.
WithParentsOrdered(r, par, x, y) ==
    [visited |-> r.visited,
     queue |-> r.queue,
     parents |-> SetParents(par, r.neighbors, <<x, y>>)]

\* The for loop of perform_update.
RECURSIVE PerformForOrdered(_, _, _, _, _)
PerformForOrdered(dirs, left, g, e, b) ==
    IF left = 0
    THEN [found |-> FALSE, visited |-> b.visited, queue |-> b.queue,
          parents |-> b.parents]
    ELSE LET x == Head(b.queue)[1]
             y == Head(b.queue)[2]
         IN  IF <<x, y>> = e
             THEN [found |-> TRUE, visited |-> b.visited,
                   queue |-> Tail(b.queue), parents |-> b.parents]
             ELSE PerformForOrdered(dirs, left - 1, g, e,
                      WithParentsOrdered(
                          visit_neighbors_ordered(dirs, x, y, g, GridSize(g),
                                                  b.visited, Tail(b.queue)),
                          b.parents, x, y))

\* perform_update called on a SimulationState until it requests its
\* transition: the state requested, the level handed to it and the parents.
RECURSIVE DrainOrdered(_, _, _, _, _)
RECURSIVE DrainBodyOrdered(_, _, _, _, _)
DrainOrdered(dirs, g, e, b, lvl) ==
    IF Len(b.queue) = 0
    THEN [next_state |-> "NoPathState", level |-> lvl, parents |-> b.parents]
    ELSE DrainBodyOrdered(dirs, g, e,
             PerformForOrdered(dirs, Len(b.queue), g, e, b), lvl + 1)

DrainBodyOrdered(dirs, g, e, r, lvl) ==
    IF r.found
    THEN [next_state |-> "CompletionState", level |-> lvl,
          parents |-> r.parents]
    ELSE DrainOrdered(dirs, g, e, r, lvl)

\* SimulationState(game, grid, start_pos, end_pos) driven to its transition.
simulation_ordered(dirs, g, s, e) ==
    DrainOrdered(dirs, g, e,
        [visited |-> SetCell(AllFalse(GridSize(g)), s[1], s[2], TRUE),
         queue |-> <<s>>,
         parents |-> [c \in {s} |-> None]], 0)


\* DIRECTIONS rotated by k places.
Rotated(k) ==
    [i \in 1 .. Len(DIRECTIONS) |->
        DIRECTIONS[((i + k - 1) % Len(DIRECTIONS)) + 1]]

Backwards(d) == [i \in 1 .. Len(d) |-> d[Len(d) + 1 - i]]

\* The four diagonal moves first.
DiagonalFirst ==
    << <<1, 1>>, <<-1, 1>>, <<-1, -1>>, <<1, -1>>,
       <<1, 0>>, <<0, 1>>, <<-1, 0>>, <<0, -1>> >>

\* The orderings of the 8 entries of DIRECTIONS examined: its 8 rotations,
\* each also read backwards, the diagonal moves first, the orthogonal moves
\* first.
Orderings ==
    {Rotated(k) : k \in 0 .. Len(DIRECTIONS) - 1}
        \cup {Backwards(Rotated(k)) : k \in 0 .. Len(DIRECTIONS) - 1}
        \cup {DiagonalFirst, Backwards(DiagonalFirst)}

\* One grid, the default ends or the two corners swapped, one ordering; no
\* call made yet.
InitOrder ==
    /\ \E n \in 1 .. MaxSize :
          /\ grid \in Grids[n]
          /\ \E p \in {<< <<0, 0>>, <<n - 1, n - 1>> >>,
                       << <<n - 1, n - 1>>, <<0, 0>> >>} :
                /\ start_pos = p[1]
                /\ end_pos = p[2]
    /\ \E dirs \in Orderings : one_shot = [called |-> FALSE, order |-> dirs]
    /\ visited = << >>
    /\ queue = << >>
    /\ parents = << >>
    /\ level = 0
    /\ line_sprites = << >>
    /\ final_path = << >>
    /\ next_state = "None"
    /\ final_level = 0
    /\ gen = GenOff
    /\ game = GameOff

\* shortest_path is called and a SimulationState is driven to its
\* transition, both with the ordering chosen.
CallOrdered ==
    /\ ~one_shot.called
    /\ one_shot' =
          [called |-> TRUE,
           order |-> one_shot.order,
           ret |-> shortest_path_ordered(one_shot.order, grid, start_pos,
                                         end_pos).ret,
           sim |-> simulation_ordered(one_shot.order, grid, start_pos,
                                      end_pos)]
    /\ UNCHANGED << grid, start_pos, end_pos, gen, game >>
    /\ UNCHANGED simVars

NextOrder == CallOrdered

SpecOrder == InitOrder /\ [][NextOrder]_vars

\* C21: for every ordering of DIRECTIONS examined, shortest_path returns
\* what it returns with the order of the source, which is -1 exactly when
\* the open ends are not connected; the stepwise engine requests the same
\* state with the same level as with the order of the source, and with open
\* ends that level is the value shortest_path returns.
C21_OrderIrrelevant ==
    one_shot.called =>
        /\ one_shot.ret = shortest_path(grid, start_pos, end_pos).ret
        /\ OpenEnds =>
              /\ one_shot.ret = -1 <=> ~Connected(grid, start_pos, end_pos)
              /\ one_shot.sim.next_state = "NoPathState" <=> one_shot.ret = -1
              /\ one_shot.sim.next_state = "CompletionState" =>
                    one_shot.sim.level = one_shot.ret
        /\ \A src \in {simulation_ordered(DIRECTIONS, grid, start_pos,
                                          end_pos)} :
              /\ one_shot.sim.next_state = src.next_state
              /\ one_shot.sim.level = src.level

\* C21 witness: on a grid with walls and a path of 4 cells, an ordering
\* other than that of the source gave other parents and the same level.
C21_Witness ==
    /\ one_shot.called
    /\ one_shot.order # DIRECTIONS
    /\ WallCells(grid) # {}
    /\ one_shot.ret = 4
    /\ one_shot.sim.level = 4
    /\ one_shot.sim.parents
           # simulation_ordered(DIRECTIONS, grid, start_pos, end_pos).parents


\* C22: path finding never modifies the grid: every perform_update call and
\* the shortest_path call leave every cell of the grid as it was.
C22_GridUnchanged ==
    [][\A c \in Cells(GridSize(grid)) :
          grid'[c[1]][c[2]] = grid[c[1]][c[2]]]_vars

\* C22 witness: three perform_update calls and the shortest_path call were
\* made on a grid that holds walls and unvisited open cells.
C22_Witness ==
    /\ one_shot.called
    /\ level = 3
    /\ Cardinality(WallCells(grid)) = MaxWalls
    /\ OpenCells(grid) \ VisitedCells # {}
    /\ Cardinality(VisitedCells) > 3


\* C23: a grid returned by create_good_grid or create_bad_grid has its start
\* and its end open; a grid returned by create_bad_grid has no 8-connected
\* path of open cells between them.
C23_ReturnedEndsOpen ==
    gen.pc = "returned" =>
        /\ gen.ret = grid
        /\ IsOpen(gen.ret, start_pos)
        /\ IsOpen(gen.ret, end_pos)
        /\ gen.fn = "create_bad_grid" =>
              ~Connected(gen.ret, start_pos, end_pos)

\* C23 witness: create_bad_grid returned a grid for a start other than
\* (0, 0), after rejecting a grid.
C23_Witness ==
    /\ gen.pc = "returned"
    /\ gen.fn = "create_bad_grid"
    /\ gen.rejected
    /\ start_pos # <<0, 0>>
    /\ OpenEnds
    /\ ~Connected(grid, start_pos, end_pos)


\* The number of perform_update calls made on the SimulationState: every
\* call raises level by one, except the one that requests NoPathState.
CallsMade == level + (IF next_state = "NoPathState" THEN 1 ELSE 0)

\* C30 (termination): with open ends, every perform_update call raises the
\* level or requests a transition, the level never exceeds the number of
\* open cells, so at most size * size + 1 calls are made before Completion
\* or NoPath is requested; the while loop of shortest_path starts at most
\* as many iterations as there are open cells and returns.
C30_Termination ==
    /\ [](OpenEnds =>
            \A open \in {Cardinality(OpenCells(grid))} :
               /\ level <= open
               /\ CallsMade <= open + 1
               /\ CallsMade <= GridSize(grid) * GridSize(grid) + 1
               /\ next_state = "None" /\ level = open => Len(queue) = 0
               /\ one_shot.called =>
                     /\ one_shot.level <= open
                     /\ one_shot.ret \in {-1} \cup (1 .. open))
    /\ [][Called => level' = level + 1 \/ next_state' # "None"]_vars

\* C30 witness: on a 3x3 grid with open ends and 6 open cells NoPathState
\* was requested by the 4th call, and shortest_path returned -1.
C30_Witness ==
    /\ OpenEnds
    /\ GridSize(grid) = 3
    /\ next_state = "NoPathState"
    /\ Cardinality(OpenCells(grid)) = 6
    /\ CallsMade = 4
    /\ one_shot.called
    /\ one_shot.ret = -1


\* ------------------------------------------------- game.py and the scenes

\* constants.py is not among the sources: GRID_SIZE is taken as the smallest
\* size create_grid accepts, START_POS and END_POS as the defaults of the
\* generator, (0, 0) and the opposite corner.
GRID_SIZE == 3

START_POS == <<0, 0>>

END_POS == <<GRID_SIZE - 1, GRID_SIZE - 1>>

\* Time is counted in whole units: update_interval = 1 / updates_per_second
\* is UpdateInterval units, clock.tick returns 0 .. MaxDelta units, and the
\* frames examined keep time_lapsed_since_last_update within MaxLapsed.
UpdateInterval == 2

MaxDelta == 2

MaxLapsed == 3

\* pygame.event.get() returns at most MaxBatch events per frame.
MaxBatch == 2

\* The events told apart: QUIT, the key-up of SPACE, of RETURN or KP_ENTER,
\* of ESCAPE, and any other event (another key, a key-down, the mouse).
Events == {"QUIT", "SPACE", "RETURN", "ESCAPE", "OTHER"}

RECURSIVE SeqsUpTo(_, _)
SeqsUpTo(S, k) ==
    IF k = 0 THEN {<< >>}
    ELSE SeqsUpTo(S, k - 1)
            \cup {Append(q, a) : q \in {b \in SeqsUpTo(S, k - 1) :
                                            Len(b) = k - 1}, a \in S}

Batches == SeqsUpTo(Events, MaxBatch)

\* create_good_grid(size) / create_bad_grid(size) returns: the loop of
\* create_grid ends with the first sampled grid the predicate accepts, which
\* can be any accepted one; start and end are the defaults (0, 0) and None.
CreateGridReturns ==
    [fn \in {"create_good_grid", "create_bad_grid"} |->
        {a.grid : a \in {b \in {Attempt(sample, <<0, 0>>,
                                        <<GRID_SIZE - 1, GRID_SIZE - 1>>) :
                                    sample \in Grids[GRID_SIZE]} :
                            Predicate(fn, b.shortest_path_length)}}]

\* No scene change is pending (InitState.handle_events has not called
\* _create_grid_and_navigate).
NoSim == [key |-> "None"]

IsGoodChoicesAnyKey(key) == {TRUE, FALSE}

\* is_good for the key released: SPACE passes None, replaced by
\* random.choice([True, False]); RETURN passes True, ESCAPE False.
IsGoodChoices(key) ==
    IF key = "SPACE" THEN {TRUE, FALSE}
    ELSE IF key = "RETURN" THEN {TRUE} ELSE {FALSE}

\* InitState._create_grid_and_navigate(GRID_SIZE, is_good) for the key: the
\* SimulationState arguments it can produce.
Navigate(key) ==
    UNION {{[key |-> key, is_good |-> is_good, grid |-> g] :
               g \in CreateGridReturns[IF is_good THEN "create_good_grid"
                                       ELSE "create_bad_grid"]} :
           is_good \in IsGoodChoices(key)}

\* InitState.handle_events: the loop over the events; pending is the set of
\* scene changes that can be pending so far.  Each SPACE, RETURN or ESCAPE
\* key-up replaces what is pending by a new SimulationState.
RECURSIVE InitHandle(_, _)
InitHandle(events, pending) ==
    IF events = << >> THEN pending
    ELSE IF Head(events) \in {"SPACE", "RETURN", "ESCAPE"}
    THEN InitHandle(Tail(events), Navigate(Head(events)))
    ELSE InitHandle(Tail(events), pending)

BackKeyEscape(state) == "ESCAPE"

\* SimulationState.handle_events: an ESCAPE key-up requests InitState.
\* CompletionState / NoPathState.handle_events: a SPACE key-up does.
BackKey(state) == IF state = "SimulationState" THEN "ESCAPE" ELSE "SPACE"

\* The engine fields when no SimulationState exists.
NoEngine ==
    /\ grid' = None
    /\ visited' = << >>
    /\ queue' = << >>
    /\ parents' = << >>
    /\ level' = 0
    /\ line_sprites' = << >>
    /\ final_path' = << >>
    /\ final_level' = 0

\* self.game.next_state = SimulationState(self.game, grid=grid,
\* start_pos=START_POS, end_pos=END_POS): the fields __init__ sets.
ConstructSimulation(g) ==
    /\ grid' = g
    /\ visited' = SetCell(AllFalse(GridSize(g)), START_POS[1], START_POS[2],
                          TRUE)
    /\ queue' = <<START_POS>>
    /\ parents' = [c \in {START_POS} |-> None]
    /\ level' = 0
    /\ line_sprites' = << >>
    /\ final_path' = << >>
    /\ final_level' = 0
    /\ next_state' = "SimulationState"


\* Game.run up to the loop: pygame is initialised, running = True,
\* state = InitState(self), next_state = None.  The record also holds the
\* timer fields of the SimulationState (time_lapsed), the locals of the
\* current iteration (batch, updated, rendered) and what the formulas
\* need to remember: the key that started the simulation and its is_good,
\* the frame time since the SimulationState was built (total) and since its
\* last perform_update (since), the number of perform_update calls (updates),
\* the level shown by CompletionState / NoPathState (shown_level).
InitGame ==
    /\ game = [pc |-> "handle_events", state |-> "InitState",
               running |-> TRUE, batch |-> << >>, updated |-> "None",
               rendered |-> "None",
               time_lapsed |-> 0, since |-> 0, total |-> 0, updates |-> 0,
               key |-> "None", is_good |-> FALSE, shown_level |-> 0]
    /\ start_pos = START_POS
    /\ end_pos = END_POS
    /\ grid = None
    /\ visited = << >>
    /\ queue = << >>
    /\ parents = << >>
    /\ level = 0
    /\ line_sprites = << >>
    /\ final_path = << >>
    /\ final_level = 0
    /\ next_state = "None"
    /\ one_shot = NotCalled
    /\ gen = GenOff

QuitSeenFirst(batch) == Len(batch) > 0 /\ batch[1] = "QUIT"

\* Game.handle_events: the loop over pygame.event.get() meets a QUIT event.
QuitSeen(batch) == \E i \in 1 .. Len(batch) : batch[i] = "QUIT"

\* The loop record after Game.handle_events has polled the batch.
Polled(batch) ==
    [game EXCEPT !.pc = "update", !.batch = batch,
                 !.running = IF QuitSeen(batch) THEN FALSE ELSE @]

\* Game.handle_events: one call.  A QUIT event stops the loop and nothing is
\* forwarded; otherwise the batch goes to handle_events of the current state.
GameHandleEventsOf(batches) ==
    /\ game.pc = "handle_events"
    /\ \E batch \in batches :
          IF QuitSeen(batch)
          THEN /\ game' = Polled(batch)
               /\ UNCHANGED simVars
               /\ UNCHANGED grid
          ELSE IF game.state = "InitState"
          THEN \E r \in InitHandle(batch, {NoSim}) :
                  IF r.key = "None"
                  THEN /\ game' = Polled(batch)
                       /\ UNCHANGED simVars
                       /\ UNCHANGED grid
                  ELSE /\ ConstructSimulation(r.grid)
                       /\ game' = [Polled(batch) EXCEPT
                                      !.key = r.key,
                                      !.is_good = r.is_good,
                                      !.time_lapsed = 0,
                                      !.since = 0,
                                      !.total = 0,
                                      !.updates = 0]
          ELSE /\ game' = Polled(batch)
               /\ next_state' =
                     IF \E i \in 1 .. Len(batch) :
                           batch[i] = BackKey(game.state)
                     THEN "InitState" ELSE next_state
               /\ UNCHANGED << visited, queue, parents, level, line_sprites,
                               final_path, final_level >>
               /\ UNCHANGED grid
    /\ UNCHANGED << start_pos, end_pos, one_shot, gen >>

GameHandleEvents == GameHandleEventsOf(Batches)

\* TimelyUpdateGameState.update: the test on the accumulated time.
TimerFires(delta) == game.time_lapsed + delta >= UpdateInterval

\* The loop record after self.state.update(delta_time): the timer fields of
\* a SimulationState after TimelyUpdateGameState.update, nothing else for
\* the other states (GameState.update is pass).
Ticked(delta) ==
    IF game.state # "SimulationState"
    THEN [game EXCEPT !.pc = "render", !.batch = << >>,
                      !.updated = game.state]
    ELSE IF ~TimerFires(delta)
    THEN [game EXCEPT !.pc = "render", !.batch = << >>,
                      !.updated = game.state,
                      !.time_lapsed = @ + delta,
                      !.since = @ + delta,
                      !.total = @ + delta]
    ELSE [game EXCEPT !.pc = "render", !.batch = << >>,
                      !.updated = game.state,
                      !.time_lapsed = @ + delta - UpdateInterval,
                      !.since = 0,
                      !.total = @ + delta,
                      !.updates = @ + 1]

\* self.state.update(delta_time) with delta_time = clock.tick(FPS) / 1000:
\* TimelyUpdateGameState.update for the SimulationState, GameState.update
\* (pass) for the other states.
GameUpdate ==
    /\ game.pc = "update"
    /\ \E delta \in 0 .. MaxDelta :
          /\ game.time_lapsed + delta <= MaxLapsed
          /\ game' = Ticked(delta)
          /\ IF game.state = "SimulationState" /\ TimerFires(delta)
             THEN perform_update
             ELSE UNCHANGED simVars /\ EngineFrame

\* The loop record after self.state.render() and pygame.display.flip().
Rendered == [game EXCEPT !.pc = "swap", !.rendered = game.state]

GameRenderSteps ==
    /\ game.pc = "render"
    /\ game' = Rendered
    /\ IF game.state = "SimulationState"
       THEN perform_update
       ELSE UNCHANGED simVars /\ EngineFrame

\* self.state.render(); pygame.display.flip()
GameRender ==
    /\ game.pc = "render"
    /\ game' = Rendered
    /\ UNCHANGED simVars
    /\ EngineFrame

ClearRequestForgotten == UNCHANGED next_state

\* self.next_state = None
ClearRequest == next_state' = "None"

\* The loop record after the end of the iteration: the pending state, if
\* any, is the current one, and the loop test has read self.running.  What
\* the record remembers of a SimulationState goes with it, but for the key
\* and the level handed to CompletionState / NoPathState.
Swapped ==
    \* the locals of the iteration are gone
    LET next == [game EXCEPT
                    !.pc = IF game.running THEN "handle_events" ELSE "exited",
                    !.updated = "None", !.rendered = "None"]
    IN  IF next_state = "None"
        THEN next
        ELSE IF next_state = "SimulationState"
        THEN [next EXCEPT !.state = next_state]
        ELSE [next EXCEPT
                 !.state = next_state,
                 !.time_lapsed = 0, !.since = 0, !.total = 0, !.updates = 0,
                 !.key = IF next_state = "InitState" THEN "None" ELSE @,
                 !.is_good = IF next_state = "InitState" THEN FALSE ELSE @,
                 !.shown_level = IF next_state = "InitState"
                                 THEN 0 ELSE final_level]

\* The end of the iteration: the pending state, if any, becomes the current
\* one and next_state is None again; then the loop tests self.running.  A
\* SimulationState that is replaced is dropped with its fields.
GameSwap ==
    /\ game.pc = "swap"
    /\ game' = Swapped
    /\ IF next_state # "None"
       THEN /\ ClearRequest
            /\ IF next_state = "SimulationState"
               THEN UNCHANGED << grid, visited, queue, parents, level,
                                 line_sprites, final_path, final_level >>
               ELSE NoEngine
       ELSE /\ UNCHANGED simVars
            /\ UNCHANGED grid
    /\ UNCHANGED << start_pos, end_pos, one_shot, gen >>

NextGame == GameHandleEvents \/ GameUpdate \/ GameRender \/ GameSwap

SpecGame == InitGame /\ [][NextGame]_vars


\* ------------------------------------------------------------------------
\* Claims about the game loop
\* ------------------------------------------------------------------------

\* C24: when SimulationState handles an ESC key-up event, the next active
\* state is InitState whatever the BFS does in the update of that frame.
\* InitState is pending in a SimulationState only after its handle_events saw
\* ESC, and the swap at the end of the iteration installs what is pending:
\* the update of the frame must leave the pending InitState alone.
C24_AsClaimed ==
    [][(/\ game.pc = "update"
        /\ game.state = "SimulationState"
        /\ next_state = "InitState")
       => next_state' = "InitState"]_vars


\* C26: for any sequence of frame delta times, two consecutive perform_update
\* calls are separated by at least update_interval of accumulated frame time,
\* and at most one perform_update happens per update call.
\* game.since is the frame time accumulated since the previous perform_update
\* of this SimulationState, game.total the frame time since it was built.
C26_AsClaimed ==
    [][(game.pc = "update" /\ game.state = "SimulationState")
       => /\ game'.updates <= game.updates + 1
          /\ (game'.updates > game.updates /\ game.updates >= 1)
                => game.since + (game'.total - game.total) >= UpdateInterval
      ]_vars


\* C27: a scene change requested through game.next_state during
\* handle_events or update takes effect only at the end of that iteration:
\* the update and the render of the iteration run on the old state, the
\* state changes only in the swap (one swap per iteration, which installs
\* the pending state), and next_state is None again right after the swap.
C27_DeferredSwap ==
    /\ [](/\ game.pc = "swap"
             => game.updated = game.state /\ game.rendered = game.state
          /\ game.pc = "render" => game.updated = game.state
          /\ game.pc \in {"handle_events", "exited"} => next_state = "None")
    /\ [][/\ game'.state # game.state =>
                /\ game.pc = "swap"
                /\ game'.state = next_state
          /\ game.pc = "swap" =>
                /\ game'.pc \in {"handle_events", "exited"}
                /\ next_state' = "None"
                /\ next_state # "None" => game'.state = next_state
          /\ game.pc # "swap" => game'.state = game.state
         ]_vars

\* The iteration after a perform_update that dequeued end at level 3 has
\* begun: CompletionState is installed and nothing is pending.
C27_Witness ==
    /\ game.pc = "handle_events"
    /\ game.state = "CompletionState"
    /\ game.shown_level = 3
    /\ next_state = "None"


\* The edges of the scene graph.
SceneGraph ==
    {<<"InitState", "SimulationState">>,
     <<"SimulationState", "InitState">>,
     <<"SimulationState", "CompletionState">>,
     <<"SimulationState", "NoPathState">>,
     <<"CompletionState", "InitState">>,
     <<"NoPathState", "InitState">>}

HasKey(batch, keys) == \E i \in 1 .. Len(batch) : batch[i] \in keys

\* C28: the active state changes only along Init -> Simulation (on SPACE,
\* ENTER or ESC), Simulation -> Init (ESC), Simulation -> Completion (end
\* dequeued), Simulation -> NoPath (queue found empty), Completion -> Init
\* and NoPath -> Init (SPACE); no other key or event changes the scene.
\* A change of scene is a request written to next_state and installed by the
\* swap: a forwarded batch writes a request exactly when it holds a key the
\* current state reacts to, an update exactly when perform_update runs and
\* finds the queue empty or dequeues the end, nothing else writes one.
C28_SceneGraph ==
    [][/\ game'.state # game.state
             => <<game.state, game'.state>> \in SceneGraph
       /\ (game.pc = "handle_events" /\ HasKey(game'.batch, {"QUIT"}))
             => next_state' = next_state
       /\ (game.pc = "handle_events" /\ ~HasKey(game'.batch, {"QUIT"}))
             => CASE game.state = "InitState" ->
                       IF HasKey(game'.batch, {"SPACE", "RETURN", "ESCAPE"})
                       THEN next_state' = "SimulationState"
                       ELSE next_state' = next_state
                  [] game.state = "SimulationState" ->
                       IF HasKey(game'.batch, {"ESCAPE"})
                       THEN next_state' = "InitState"
                       ELSE next_state' = next_state
                  [] OTHER ->
                       IF HasKey(game'.batch, {"SPACE"})
                       THEN next_state' = "InitState"
                       ELSE next_state' = next_state
       /\ game.pc = "update"
             => IF game.state = "SimulationState"
                   /\ game'.updates > game.updates
                THEN IF Len(queue) = 0
                     THEN next_state' = "NoPathState"
                     ELSE IF end_pos \in Range(queue)
                     THEN next_state' = "CompletionState"
                     ELSE next_state' = next_state
                ELSE next_state' = next_state
       /\ game.pc = "render" => next_state' = next_state
      ]_vars

\* Init -> Simulation -> NoPath was walked (the search gave up at level 1)
\* and NoPathState has just handled a batch in which a SPACE key-up follows
\* another event: InitState is requested.
C28_Witness ==
    /\ game.state = "NoPathState"
    /\ game.pc = "update"
    /\ game.batch = <<"OTHER", "SPACE">>
    /\ next_state = "InitState"
    /\ game.shown_level = 1


\* C29: when the batch of a frame contains a QUIT event, Game.handle_events
\* sets running to False and forwards no event of the batch to the current
\* state, not even those before the QUIT (nothing a handler writes changes),
\* and the loop exits at the end of that iteration: update, render and swap
\* still run, no other handle_events does.  Only a QUIT stops the loop.
C29_QuitStopsLoop ==
    /\ [](~game.running => game.pc \in {"update", "render", "swap", "exited"})
    /\ [][/\ (game.pc = "handle_events" /\ HasKey(game'.batch, {"QUIT"}))
                => /\ ~game'.running
                   /\ game'.pc = "update"
                   /\ next_state' = next_state
                   /\ grid' = grid
                   /\ simVars' = simVars
                   /\ game'.key = game.key
          /\ (game.running /\ ~game'.running)
                => game.pc = "handle_events" /\ HasKey(game'.batch, {"QUIT"})
          /\ (game.pc = "swap" /\ ~game.running) => game'.pc = "exited"
          /\ (game.pc = "swap" /\ game.running) => game'.pc = "handle_events"
          /\ game.pc = "exited" => game' = game
         ]_vars

\* Game.handle_events has just met a QUIT behind a SPACE key-up in the batch
\* of an InitState frame: the loop is stopped and no SimulationState was
\* built for the SPACE.
C29_Witness ==
    /\ game.pc = "update"
    /\ game.state = "InitState"
    /\ game.batch = <<"SPACE", "QUIT">>
    /\ ~game.running
    /\ next_state = "None"
    /\ grid = None

\* The longest batch of events of a frame under SpecGameFair.
MaxBatchFair == 1

\* What pygame.event.get() returns under SpecGameFair.
BatchesFair == SeqsUpTo(Events, MaxBatchFair)

\* The loop body with the batches of SpecGameFair.
NextGameFair ==
    \/ GameHandleEventsOf(BatchesFair)
    \/ GameUpdate
    \/ GameRender
    \/ GameSwap

\* One step of the loop while the SimulationState is on screen, as seen on
\* the loop record.
SimulationIteration ==
    /\ game.state = "SimulationState"
    /\ CASE game.pc = "handle_events" ->
               \E batch \in BatchesFair : game' = Polled(batch)
         [] game.pc = "update" ->
               \E delta \in 0 .. MaxDelta :
                  /\ game.time_lapsed + delta <= MaxLapsed
                  /\ game' = Ticked(delta)
         [] game.pc = "render" -> game' = Rendered
         [] game.pc = "swap" -> game' = Swapped
         [] OTHER -> FALSE

\* An update of the SimulationState in which the timer fires, as seen on the
\* loop record.
SimulationTimerFires ==
    /\ game.state = "SimulationState"
    /\ game.pc = "update"
    /\ \E delta \in 0 .. MaxDelta :
          /\ game.time_lapsed + delta <= MaxLapsed
          /\ TimerFires(delta)
          /\ game' = Ticked(delta)

\* The loop with its scheduling: while the SimulationState is on screen, an
\* iteration that has begun goes on to its next step and the loop starts
\* the next iteration while running (Game.run has no blocking call), and
\* frame time is positive (clock.tick), so that the time lapsed reaches the
\* update interval after finitely many frames.
SpecGameFair ==
    /\ InitGame
    /\ [][NextGameFair]_vars
    /\ WF_game(SimulationIteration)
    /\ SF_game(SimulationTimerFires)

\* The SimulationState on screen was built for key k.
Started(k) == game.state = "SimulationState" /\ game.key = k

\* C25 as claimed: a simulation started with ENTER, unless aborted by ESC
\* (which leads back to InitState), eventually transitions to
\* CompletionState; one started with ESC, unless aborted, eventually
\* transitions to NoPathState; one started with SPACE ends in one of the two.
C25_AsClaimed ==
    /\ Started("RETURN")
          ~> game.state \in {"CompletionState", "InitState"}
    /\ Started("ESCAPE")
          ~> game.state \in {"NoPathState", "InitState"}
    /\ Started("SPACE")
          ~> game.state \in {"CompletionState", "NoPathState", "InitState"}


\* Where a simulation started with key k may go.
Outcomes(k) ==
    CASE k = "RETURN" -> {"CompletionState", "InitState"}
      [] k = "ESCAPE" -> {"NoPathState", "InitState"}
      [] OTHER -> {"CompletionState", "NoPathState", "InitState"}

StartKeys == {"SPACE", "RETURN", "ESCAPE"}

\* C25, with the loop's exit on QUIT among the ways a simulation is cut
\* short: a simulation started with ENTER runs on a solvable grid and one
\* started with ESC on an unsolvable grid (one started with SPACE on either);
\* the first never requests NoPathState and the second never
\* CompletionState; each leaves the screen only for its result or, aborted
\* by ESC, for InitState (third conjunct); and unless the loop is stopped by
\* a QUIT event each does leave the screen (fourth conjunct), for one of the
\* states the third conjunct allows.
C25_Dispatch ==
    /\ [](grid # None =>
            /\ game.key \in StartKeys
            /\ game.key = "RETURN" => game.is_good
            /\ game.key = "ESCAPE" => ~game.is_good
            /\ game.is_good <=> Connected(grid, start_pos, end_pos)
            /\ start_pos = <<0, 0>>
            /\ end_pos = <<GridSize(grid) - 1, GridSize(grid) - 1>>)
    /\ [](/\ Started("RETURN") => next_state # "NoPathState"
          /\ Started("ESCAPE") => next_state # "CompletionState")
    /\ [][\A k \in StartKeys :
             (Started(k) /\ game'.state # game.state)
                => game'.state \in Outcomes(k)]_vars
    /\ game.state = "SimulationState"
          ~> (game.state # "SimulationState" \/ ~game.running)

\* A simulation started with ENTER ended in CompletionState at level 4 (a
\* grid with a detour) after four perform_update calls, with time to spare
\* on the timer.
C25_Witness ==
    /\ game.state = "SimulationState"
    /\ game.key = "RETURN"
    /\ game.pc = "swap"
    /\ next_state = "CompletionState"
    /\ final_level = 4
    /\ game.updates = 4
    /\ game.time_lapsed > 0


\* The open cells 8-connected to the cells of R through open cells, R
\* included: the fixed point of Grow.
RECURSIVE ComponentFrom(_, _)
RECURSIVE ComponentNext(_, _, _)
ComponentFrom(g, R) == ComponentNext(g, R, Grow(g, R))

ComponentNext(g, R, R2) == IF R2 = R THEN R ELSE ComponentFrom(g, R2)

\* The cells a visited matrix of the grid's size marks.
Marked(vis) == {c \in Cells(GridSize(grid)) : vis[c[1]][c[2]]}

\* C31: when a run with open endpoints ends unreachable (the stepwise run
\* requests NoPathState, or shortest_path returns -1), the visited set is
\* exactly the set of open cells 8-connected to start through open cells,
\* and end is not in it.
C31_UnreachableVisitsComponent ==
    OpenEnds =>
        /\ next_state = "NoPathState" =>
              /\ VisitedCells = ComponentFrom(grid, {start_pos})
              /\ end_pos \notin VisitedCells
        /\ (one_shot.called /\ one_shot.ret = -1) =>
              /\ Marked(one_shot.visited) = ComponentFrom(grid, {start_pos})
              /\ end_pos \notin Marked(one_shot.visited)

\* C31 witness: both runs ended unreachable on a grid where start's component
\* has three cells or more and two open cells or more lie outside it.
C31_Witness ==
    /\ OpenEnds
    /\ next_state = "NoPathState"
    /\ one_shot.called
    /\ one_shot.ret = -1
    /\ Cardinality(VisitedCells) >= 3
    /\ Cardinality(OpenCells(grid) \ VisitedCells) >= 2
    /\ Marked(one_shot.visited) = VisitedCells


Results == {"CompletionState", "NoPathState"}

\* C32: in the running game, once perform_update of a SimulationState has
\* requested CompletionState or NoPathState it is not called on that
\* SimulationState again: the request is pending only in what is left of the
\* iteration in which it was made, the render keeps queue, visited, parents
\* and level (and the count of perform_update calls) as they are, and the
\* swap at the end of the iteration replaces the SimulationState by the
\* requested state.
C32_NoCallAfterResult ==
    /\ [](next_state \in Results =>
             /\ game.state = "SimulationState"
             /\ game.pc \in {"render", "swap"})
    /\ [][/\ (next_state \in Results /\ game.pc = "render") =>
                /\ game'.pc = "swap"
                /\ game'.state = game.state
                /\ game'.updates = game.updates
                /\ next_state' = next_state
                /\ UNCHANGED << queue, visited, parents, level >>
          /\ (next_state \in Results /\ game.pc = "swap") =>
                /\ game'.state = next_state
                /\ next_state' = "None"
          /\ next_state \in Results => game.pc \in {"render", "swap"}
         ]_vars

\* C32 witness: CompletionState was requested by the third perform_update
\* with cells left in the queue, the frame has been rendered and the swap is
\* next.
C32_Witness ==
    /\ game.state = "SimulationState"
    /\ game.pc = "swap"
    /\ next_state = "CompletionState"
    /\ game.updates = 3
    /\ level = 3
    /\ Len(queue) > 0


\* ----------------------------------------- create_grid with its sampling

\* The iterations of create_grid that return, for a size of 3 or more and
\* the default ends (0, 0) and (size - 1, size - 1): the attempts on the
\* sampled grids that the predicate of fn accepts.
AcceptedByDefault ==
    [n \in 3 .. MaxSize |->
        [fn \in {"create_good_grid", "create_bad_grid"} |->
            {a \in {Attempt(sample, <<0, 0>>, <<n - 1, n - 1>>) :
                       sample \in Grids[n]} :
                Predicate(fn, a.shortest_path_length)}]]

\* The call is in the loop of create_grid with a size of 3 or more and the
\* default ends.
LoopByDefault ==
    /\ gen.pc = "loop"
    /\ gen.size >= 3
    /\ start_pos = <<0, 0>>
    /\ end_pos = <<gen.size - 1, gen.size - 1>>

\* An iteration of the loop that returns, with the default ends, as seen on
\* the record of the call.
ReturnsByDefault ==
    /\ LoopByDefault
    /\ \E a \in AcceptedByDefault[gen.size][gen.fn] :
          gen' = [gen EXCEPT !.pc = "returned",
                             !.shortest_path_length = a.shortest_path_length,
                             !.ret = a.grid]

\* create_grid under fair sampling: random.choice draws every grid with
\* positive probability in every iteration, so an accepted grid, when there
\* is one, is drawn after finitely many iterations.
SpecGenFair ==
    /\ InitGen
    /\ [][NextGen]_vars
    /\ WF_gen(ReturnsByDefault)

\* C33: for every size >= 3 with the default ends (0,0) and (size-1,size-1)
\* a grid accepted by the solvable predicate and a grid accepted by the
\* unsolvable predicate both exist, so under fair sampling create_good_grid
\* and create_bad_grid each eventually return; and the loop has no other
\* exit than returning an accepted grid: an iteration either goes round the
\* loop or returns its grid with a result the predicate accepts (with the
\* default ends, one of the accepted attempts: the result is that of
\* shortest_path on the grid), and nothing follows the return.
C33_GeneratorLiveness ==
    /\ [](LoopByDefault => AcceptedByDefault[gen.size][gen.fn] # {})
    /\ [][/\ gen.pc = "loop" =>
                /\ gen'.pc \in {"loop", "returned"}
                /\ gen'.pc = "returned" =>
                      /\ gen'.ret = grid'
                      /\ Predicate(gen.fn, gen'.shortest_path_length)
          /\ (LoopByDefault /\ gen'.pc = "returned") =>
                [grid |-> gen'.ret,
                 shortest_path_length |-> gen'.shortest_path_length]
                    \in AcceptedByDefault[gen.size][gen.fn]
          /\ gen.pc = "returned" => gen' = gen
         ]_vars
    /\ LoopByDefault ~> gen.pc = "returned"

\* C33 witness: create_bad_grid(3) has returned a grid after an iteration
\* that rejected its sample.
C33_Witness ==
    /\ gen.pc = "returned"
    /\ gen.fn = "create_bad_grid"
    /\ gen.size = 3
    /\ gen.rejected
    /\ start_pos = <<0, 0>>
    /\ end_pos = <<2, 2>>
    /\ gen.shortest_path_length = -1

=============================================================================
